---- MODULE Spec2Model ----
(***************************************************************************)
(* Model of fetchPokemonListWithDetails (src/src/utils/pokemonFetcher.ts). *)
(*                                                                         *)
(* One invocation of the async function is a process whose position is pc. *)
(* JavaScript runs each continuation to completion, so the selection loop  *)
(* and the map that dispatches the detail requests run while no response   *)
(* handler can run; the handlers of the per-item tasks run only once the   *)
(* function is suspended on `await Promise.allSettled(...)`.               *)
(***************************************************************************)
EXTENDS Integers, Sequences, FiniteSets, TLC

\* ---- bounds ----
MaxList == 3      \* longest listing (data.results) the server returns
MaxCount == 3     \* largest options.count

\* ---- values ----
Null == <<>>                         \* JavaScript null
ListUrl == <<"url", 0>>              \* "https://pokeapi.co/api/v2/pokemon?limit=1000"
Name(id) == <<"name", id>>           \* PokemonListItem.name of listing entry id
Url(id) == <<"url", id>>             \* PokemonListItem.url of listing entry id
UrlId(u) == u[2]
Sprite(u) == <<"sprite", UrlId(u)>>  \* the image the server holds for url u

\* the bodies a detail response can carry once it is parsed
Bodies == {"sprite", "nullSprite", "noSprites"}

VARIABLES
  count,            \* options.count
  pc,               \* position of the async function
  results,          \* data.results of the listing response
  randomPokemon,    \* the placeholders selected so far
  usedIndices,      \* the indices already drawn
  tasks,            \* detailPromises: one record per dispatched task
  requests,         \* every url passed to fetch, in call order
  elapsed,          \* requestTimeout has elapsed since the dispatch
  completionOrder,  \* indices of the tasks in the order they settled
  consoleErrors,    \* names passed to console.error, in call order
  returned,         \* the value the function resolved to
  thrown,           \* the error the function rejected with
  \* ---- App (src/src/components/PokemonList.tsx, lines 270-443) ----
  pokemonList,      \* useState: the list handed to PokemonList
  loading,          \* useState: the listing phase is running
  error,            \* useState: the list error message or null
  selectedPokemon,  \* useState: the details shown or null
  detailsLoading,   \* useState: a details load is running
  detailsError,     \* useState: the details error message or null
  listCalls,        \* the invocations of fetchPokemonList, in call order
  listFrom,         \* which invocation set pokemonList last, and with what
  detailCalls       \* the invocations of fetchPokemonDetails, in call order

fetcherVars == <<count, pc, results, randomPokemon, usedIndices, tasks, requests,
                 elapsed, completionOrder, consoleErrors, returned, thrown>>

appVars == <<pokemonList, loading, error, selectedPokemon, detailsLoading,
             detailsError, listCalls, listFrom, detailCalls>>

vars == <<count, pc, results, randomPokemon, usedIndices, tasks, requests,
          elapsed, completionOrder, consoleErrors, returned, thrown,
          pokemonList, loading, error, selectedPokemon, detailsLoading,
          detailsError, listCalls, listFrom, detailCalls>>

\* ---- pure helpers ----

\* lines 37-42: the placeholder pushed for a listing entry
Placeholder(pokemon) ==
  [name |-> pokemon.name, url |-> pokemon.url, image |-> Null, isLoading |-> TRUE]

\* lines 56-61: the value a task returns when its body parsed
SuccessValue(pokemon, front_default) ==
  [name |-> pokemon.name, url |-> pokemon.url, image |-> front_default, isLoading |-> FALSE]

\* variant of CatchValue: the catch block substitutes a fallback picture
CatchValueFallbackImage(pokemon) ==
  [name |-> pokemon.name, url |-> pokemon.url, image |-> <<"sprite", 0>>, isLoading |-> FALSE]

\* lines 65-70: the value the catch block returns
CatchValue(pokemon) ==
  [name |-> pokemon.name, url |-> pokemon.url, image |-> Null, isLoading |-> FALSE]

\* variant of FrontDefault: every task reads the response of the first item
FrontDefaultOfFirst(body, u) ==
  IF body = "sprite" THEN Sprite(randomPokemon[1].url) ELSE Null

\* line 59: details.sprites.front_default of a parsed body for url u
FrontDefault(body, u) == IF body = "sprite" THEN Sprite(u) ELSE Null

\* lines 47-53: the state of a task right after its synchronous part
NewTask(pokemon) ==
  [pokemon |-> pokemon, st |-> "awaitFetch", timer |-> "armed", aborted |-> FALSE,
   httpOk |-> TRUE, body |-> "none", cause |-> "none", status |-> "pending",
   value |-> pokemon]

\* variant of Caught: the catch block rethrows, so the task's promise rejects
CaughtRethrown(t, why) ==
  [t EXCEPT !.st = "settled", !.cause = why, !.status = "rejected"]

\* lines 62-70: a task that left through its catch block
Caught(t, why) ==
  [t EXCEPT !.st = "settled", !.cause = why, !.status = "fulfilled",
            !.value = CatchValue(t.pokemon)]

\* variant of AllSettled: a fail-fast join that also ends at the first failure
SettledOrFirstFailure ==
  /\ Len(tasks) = Len(randomPokemon)
  /\ \/ \A i \in 1..Len(tasks) : tasks[i].st = "settled"
     \/ \E i \in 1..Len(tasks) : tasks[i].cause # "none"

\* line 75: Promise.allSettled resolves once every promise has settled
AllSettled ==
  /\ Len(tasks) = Len(randomPokemon)
  /\ \A i \in 1..Len(tasks) : tasks[i].st = "settled"

RECURSIVE FilterFulfilled(_)
\* line 78: results.filter(fulfilled).map(value), in the order of the array
FilterFulfilled(ts) ==
  IF ts = <<>> THEN <<>>
  ELSE IF Head(ts).status = "fulfilled"
       THEN <<Head(ts).value>> \o FilterFulfilled(Tail(ts))
       ELSE FilterFulfilled(Tail(ts))

\* variant of JoinResults: the values are collected as the tasks settle
JoinResultsByCompletion ==
  [k \in 1..Len(completionOrder) |-> tasks[completionOrder[k]].value]

\* variant of JoinResults: one failure makes the join give up every image
JoinResultsFailFast ==
  IF \E i \in 1..Len(tasks) : tasks[i].cause # "none"
  THEN [k \in 1..Len(tasks) |-> CatchValue(tasks[k].pokemon)]
  ELSE FilterFulfilled(tasks)

\* lines 75-78: the array the join produces
JoinResults == FilterFulfilled(tasks)

\* lines 271-276: the useState initial values; no call has been made
AppUnmounted ==
  /\ pokemonList = <<>>
  /\ loading = FALSE
  /\ error = Null
  /\ selectedPokemon = Null
  /\ detailsLoading = FALSE
  /\ detailsError = Null
  /\ listCalls = <<>>
  /\ listFrom = [call |-> 0, phase |-> "initial"]
  /\ detailCalls = <<>>

\* ---- initial state: the function was called, line 25 has issued the listing ----
Init ==
  /\ AppUnmounted
  /\ count \in 0..MaxCount
  /\ pc = "fetchList"
  /\ results = <<>>
  /\ randomPokemon = <<>>
  /\ usedIndices = {}
  /\ tasks = <<>>
  /\ requests = <<ListUrl>>
  /\ elapsed = FALSE
  /\ completionOrder = <<>>
  /\ consoleErrors = <<>>
  /\ returned = <<>>
  /\ thrown = "none"

\* ---- the listing ----

\* line 25: the listing request resolves with a response
ListFetchResolves ==
  /\ UNCHANGED appVars
  /\ pc = "fetchList"
  /\ pc' = "listJson"
  /\ UNCHANGED <<count, results, randomPokemon, usedIndices, tasks, requests,
                 elapsed, completionOrder, consoleErrors, returned, thrown>>

\* variant of ListFetchRejects: the listing error is swallowed into an empty result
ListFetchRejectsDegraded ==
  /\ UNCHANGED appVars
  /\ pc = "fetchList"
  /\ pc' = "done"
  /\ thrown' = "NetworkError"
  /\ UNCHANGED <<count, results, randomPokemon, usedIndices, tasks, requests,
                 elapsed, completionOrder, consoleErrors, returned>>

\* line 25: the listing request rejects; nothing catches it
ListFetchRejects ==
  /\ UNCHANGED appVars
  /\ pc = "fetchList"
  /\ pc' = "rejected"
  /\ thrown' = "NetworkError"
  /\ UNCHANGED <<count, results, randomPokemon, usedIndices, tasks, requests,
                 elapsed, completionOrder, consoleErrors, returned>>

\* line 26: the listing body parses to a list of len entries
ListJsonResolves(len) ==
  /\ UNCHANGED appVars
  /\ pc = "listJson"
  /\ results' = [i \in 1..len |-> [name |-> Name(i), url |-> Url(i)]]
  /\ pc' = "select"
  /\ UNCHANGED <<count, randomPokemon, usedIndices, tasks, requests,
                 elapsed, completionOrder, consoleErrors, returned, thrown>>

\* line 26: the listing body does not parse; nothing catches it
ListJsonRejects ==
  /\ UNCHANGED appVars
  /\ pc = "listJson"
  /\ pc' = "rejected"
  /\ thrown' = "SyntaxError"
  /\ UNCHANGED <<count, results, randomPokemon, usedIndices, tasks, requests,
                 elapsed, completionOrder, consoleErrors, returned>>

\* ---- lines 32-44: the random selection loop ----

\* line 33: Math.floor(Math.random() * length) is any index below length, 0 when length is 0
RandomIndices == IF Len(results) = 0 THEN {0} ELSE 0..(Len(results) - 1)

\* variant of SelectStep: the loop tests `<=`, so it always selects once more
SelectStepOneMore(randomIndex) ==
  /\ UNCHANGED appVars
  /\ pc = "select"
  /\ Len(randomPokemon) <= count
  /\ randomIndex \in RandomIndices
  /\ randomIndex \notin usedIndices
  /\ randomIndex + 1 \in 1..Len(results)
  /\ usedIndices' = usedIndices \cup {randomIndex}
  /\ randomPokemon' = Append(randomPokemon, Placeholder(results[randomIndex + 1]))
  /\ UNCHANGED <<count, pc, results, tasks, requests, elapsed, completionOrder,
                 consoleErrors, returned, thrown>>

\* one iteration of the while loop
SelectStep(randomIndex) ==
  /\ UNCHANGED appVars
  /\ pc = "select"
  /\ Len(randomPokemon) < count
  /\ randomIndex \in RandomIndices
  /\ IF randomIndex \in usedIndices
     THEN UNCHANGED <<pc, randomPokemon, usedIndices, thrown>>
     ELSE /\ usedIndices' = usedIndices \cup {randomIndex}
          /\ IF randomIndex + 1 \in 1..Len(results)
             THEN /\ randomPokemon' = Append(randomPokemon, Placeholder(results[randomIndex + 1]))
                  /\ UNCHANGED <<pc, thrown>>
             ELSE \* data.results[randomIndex] is undefined: pokemon.name throws
                  /\ pc' = "rejected"
                  /\ thrown' = "TypeError"
                  /\ UNCHANGED randomPokemon
  /\ UNCHANGED <<count, results, tasks, requests, elapsed, completionOrder,
                 consoleErrors, returned>>

\* line 32: the loop condition fails
SelectDone ==
  /\ UNCHANGED appVars
  /\ pc = "select"
  /\ ~(Len(randomPokemon) < count)
  /\ pc' = "map"
  /\ UNCHANGED <<count, results, randomPokemon, usedIndices, tasks, requests,
                 elapsed, completionOrder, consoleErrors, returned, thrown>>

\* ---- lines 47-72: the map that creates the tasks ----

\* variant of MapStep: a sequential loop that awaits item i-1 before item i
MapStepSequential(i) ==
  /\ UNCHANGED appVars
  /\ pc \in {"map", "join"}
  /\ i = Len(tasks) + 1
  /\ i <= Len(randomPokemon)
  /\ IF i = 1 THEN TRUE ELSE tasks[i - 1].st = "settled"
  /\ tasks' = Append(tasks, NewTask(randomPokemon[i]))
  /\ requests' = Append(requests, randomPokemon[i].url)
  /\ pc' = "join"
  /\ UNCHANGED <<count, results, randomPokemon, usedIndices, elapsed,
                 completionOrder, consoleErrors, returned, thrown>>

\* the callback's synchronous part for item i: controller, timer, fetch
MapStep(i) ==
  /\ UNCHANGED appVars
  /\ pc = "map"
  /\ i = Len(tasks) + 1
  /\ i <= Len(randomPokemon)
  /\ tasks' = Append(tasks, NewTask(randomPokemon[i]))
  /\ requests' = Append(requests, randomPokemon[i].url)
  /\ UNCHANGED <<count, pc, results, randomPokemon, usedIndices, elapsed,
                 completionOrder, consoleErrors, returned, thrown>>

\* line 75: the function suspends on the join
MapDone ==
  /\ UNCHANGED appVars
  /\ pc = "map"
  /\ Len(tasks) = Len(randomPokemon)
  /\ pc' = "join"
  /\ UNCHANGED <<count, results, randomPokemon, usedIndices, tasks, requests,
                 elapsed, completionOrder, consoleErrors, returned, thrown>>

\* ---- lines 48-71: the asynchronous part of each task ----
\* A handler runs only while the function is suspended on the join (or has
\* returned): the event loop is busy until then.

EventLoopFree == pc \in {"join", "done"}

\* requestTimeout milliseconds have passed since the timers were set (line 50)
TimeoutElapses ==
  /\ UNCHANGED appVars
  /\ pc = "join"
  /\ ~elapsed
  /\ elapsed' = TRUE
  /\ UNCHANGED <<count, pc, results, randomPokemon, usedIndices, tasks, requests,
                 completionOrder, consoleErrors, returned, thrown>>

\* variant of TimerFires: one controller shared by every item
TimerFiresSharedController(i) ==
  /\ UNCHANGED appVars
  /\ EventLoopFree
  /\ elapsed
  /\ i \in 1..Len(tasks)
  /\ tasks[i].timer = "armed"
  /\ tasks' = [k \in 1..Len(tasks) |->
                 IF k = i THEN [tasks[k] EXCEPT !.timer = "fired", !.aborted = TRUE]
                 ELSE [tasks[k] EXCEPT !.aborted = TRUE]]
  /\ UNCHANGED <<count, pc, results, randomPokemon, usedIndices, requests, elapsed,
                 completionOrder, consoleErrors, returned, thrown>>

\* line 50: the timer callback of item i runs controller.abort()
TimerFires(i) ==
  /\ UNCHANGED appVars
  /\ EventLoopFree
  /\ elapsed
  /\ i \in 1..Len(tasks)
  /\ tasks[i].timer = "armed"
  /\ tasks' = [tasks EXCEPT ![i].timer = "fired", ![i].aborted = TRUE]
  /\ UNCHANGED <<count, pc, results, randomPokemon, usedIndices, requests, elapsed,
                 completionOrder, consoleErrors, returned, thrown>>

\* lines 52-53: the response of item i arrives (status ok or not); clearTimeout
DetailFetchResolves(i, ok) ==
  /\ UNCHANGED appVars
  /\ EventLoopFree
  /\ i \in 1..Len(tasks)
  /\ tasks[i].st = "awaitFetch"
  /\ ~tasks[i].aborted
  /\ tasks' = [tasks EXCEPT ![i].st = "awaitJson", ![i].timer = "cleared", ![i].httpOk = ok]
  /\ UNCHANGED <<count, pc, results, randomPokemon, usedIndices, requests, elapsed,
                 completionOrder, consoleErrors, returned, thrown>>

\* variant of CatchBlock: the catch block also requests the item once more
CatchBlockRefetch(i, why) ==
  /\ tasks' = [tasks EXCEPT ![i] = Caught(tasks[i], why)]
  /\ consoleErrors' = Append(consoleErrors, tasks[i].pokemon.name)
  /\ completionOrder' = Append(completionOrder, i)
  /\ requests' = Append(requests, tasks[i].pokemon.url)
  /\ UNCHANGED <<count, pc, results, randomPokemon, usedIndices, elapsed,
                 returned, thrown>>

\* lines 62-70: the catch block of item i runs for the error `why`
CatchBlock(i, why) ==
  /\ tasks' = [tasks EXCEPT ![i] = Caught(tasks[i], why)]
  /\ consoleErrors' = Append(consoleErrors, tasks[i].pokemon.name)
  /\ completionOrder' = Append(completionOrder, i)
  /\ UNCHANGED <<count, pc, results, randomPokemon, usedIndices, requests, elapsed,
                 returned, thrown>>

\* variant of DetailFetchRejects: the await is outside any try, the error escapes
DetailFetchRejectsUncaught(i) ==
  /\ UNCHANGED appVars
  /\ EventLoopFree
  /\ i \in 1..Len(tasks)
  /\ tasks[i].st = "awaitFetch"
  /\ ~tasks[i].aborted
  /\ tasks' = [tasks EXCEPT ![i] = CaughtRethrown(tasks[i], "NetworkError")]
  /\ completionOrder' = Append(completionOrder, i)
  /\ pc' = "rejected"
  /\ thrown' = "NetworkError"
  /\ UNCHANGED <<count, results, randomPokemon, usedIndices, requests, elapsed,
                 consoleErrors, returned>>

\* line 52: the request of item i fails with a network error
DetailFetchRejects(i) ==
  /\ UNCHANGED appVars
  /\ EventLoopFree
  /\ i \in 1..Len(tasks)
  /\ tasks[i].st = "awaitFetch"
  /\ ~tasks[i].aborted
  /\ CatchBlock(i, "NetworkError")

\* line 52: the aborted request of item i rejects with an AbortError
DetailFetchAborted(i) ==
  /\ UNCHANGED appVars
  /\ EventLoopFree
  /\ i \in 1..Len(tasks)
  /\ tasks[i].st = "awaitFetch"
  /\ tasks[i].aborted
  /\ CatchBlock(i, "AbortError")

\* lines 55-61: the body of item i parses; a body without sprites throws at line 59
DetailJsonResolves(i, body) ==
  /\ UNCHANGED appVars
  /\ EventLoopFree
  /\ i \in 1..Len(tasks)
  /\ tasks[i].st = "awaitJson"
  /\ body \in Bodies
  /\ IF body = "noSprites"
     THEN CatchBlock(i, "TypeError")
     ELSE /\ tasks' = [tasks EXCEPT ![i].st = "settled", ![i].status = "fulfilled",
                         ![i].body = body,
                         ![i].value = SuccessValue(tasks[i].pokemon,
                                                   FrontDefault(body, tasks[i].pokemon.url))]
          /\ completionOrder' = Append(completionOrder, i)
          /\ UNCHANGED <<count, pc, results, randomPokemon, usedIndices, requests,
                         elapsed, consoleErrors, returned, thrown>>

\* line 55: the body of item i does not parse
DetailJsonRejects(i) ==
  /\ UNCHANGED appVars
  /\ EventLoopFree
  /\ i \in 1..Len(tasks)
  /\ tasks[i].st = "awaitJson"
  /\ CatchBlock(i, "SyntaxError")

\* lines 75-80: the join resolves and the function returns
Join ==
  /\ UNCHANGED appVars
  /\ pc = "join"
  /\ AllSettled
  /\ returned' = JoinResults
  /\ pc' = "done"
  /\ UNCHANGED <<count, results, randomPokemon, usedIndices, tasks, requests,
                 elapsed, completionOrder, consoleErrors, thrown>>

Items == 1..MaxCount

Next ==
  \/ ListFetchResolves
  \/ ListFetchRejects
  \/ \E len \in 0..MaxList : ListJsonResolves(len)
  \/ ListJsonRejects
  \/ \E randomIndex \in 0..MaxList : SelectStep(randomIndex)
  \/ SelectDone
  \/ \E i \in Items : MapStep(i)
  \/ MapDone
  \/ TimeoutElapses
  \/ \E i \in Items : TimerFires(i)
  \/ \E i \in Items, ok \in BOOLEAN : DetailFetchResolves(i, ok)
  \/ \E i \in Items : DetailFetchRejects(i)
  \/ \E i \in Items : DetailFetchAborted(i)
  \/ \E i \in Items, body \in Bodies : DetailJsonResolves(i, body)
  \/ \E i \in Items : DetailJsonRejects(i)
  \/ Join

Spec == Init /\ [][Next]_vars

\* The scheduling the runtime guarantees: synchronous code runs on (and the
\* draws of line 33 do not avoid an unused index forever), due timers fire, an
\* aborted fetch rejects, a settled join resumes.  The network owes nothing: a
\* response or a body may never arrive.
Fairness ==
  /\ WF_vars(\E randomIndex \in RandomIndices : SelectStep(randomIndex))
  /\ WF_vars(SelectDone)
  /\ WF_vars(\E i \in Items : MapStep(i))
  /\ WF_vars(MapDone)
  /\ WF_vars(TimeoutElapses)
  /\ WF_vars(\E i \in Items : TimerFires(i))
  /\ WF_vars(\E i \in Items : DetailFetchAborted(i))
  /\ WF_vars(Join)

FairSpec == Spec /\ Fairness

\* ======================= properties =======================

\* the task that was created for a returned item (names are distinct per listing entry)
TaskOf(item) == CHOOSE k \in 1..Len(tasks) : tasks[k].pokemon.name = item.name

\* C1: whenever the function has resolved, it returned exactly count items and
\* every selected handle occurs in the result exactly once, with its name and url.
C1_ExactlyCountItems ==
  pc = "done" =>
    /\ Len(returned) = count
    /\ \A k \in 1..Len(randomPokemon) :
         Cardinality({j \in 1..Len(returned) :
                        /\ returned[j].name = randomPokemon[k].name
                        /\ returned[j].url = randomPokemon[k].url}) = 1

\* a batch of three that returned after one success, one network error and one timeout
C1_Witness ==
  /\ pc = "done"
  /\ count = 3
  /\ Len(returned) = 3
  /\ \E a, b, c \in 1..Len(tasks) :
       /\ tasks[a].cause = "none"
       /\ tasks[b].cause = "NetworkError"
       /\ tasks[c].cause = "AbortError"

C3_ItemFailureNeverRejects ==
  tasks # <<>> => (pc \in {"map", "join", "done"} /\ thrown = "none")

\* the function fulfilled although every item failed, each in a different way
C3_Witness ==
  /\ pc = "done"
  /\ thrown = "none"
  /\ Len(returned) = 3
  /\ \E a, b, c \in 1..Len(tasks) :
       /\ tasks[a].cause = "NetworkError"
       /\ tasks[b].cause = "SyntaxError"
       /\ tasks[c].cause = "AbortError"

C5_EveryFailureKindDegrades ==
  \A i \in 1..Len(tasks) :
    ( /\ tasks[i].st = "settled"
      /\ \/ tasks[i].cause \in {"NetworkError", "SyntaxError", "AbortError"}
         \/ ~tasks[i].httpOk )
    => /\ tasks[i].value.image = Null
       /\ Cardinality({e \in 1..Len(consoleErrors) :
                         consoleErrors[e] = tasks[i].pokemon.name}) = 1

\* C6: once requestTimeout has elapsed, every item whose retrieval (response and
\* body) is still incomplete is aborted or has its timer still armed to abort it.
C6_TimeoutCoversRetrieval ==
  \A i \in 1..Len(tasks) :
    (elapsed /\ tasks[i].st \in {"awaitFetch", "awaitJson"})
    => tasks[i].timer \in {"armed", "fired"}

\* C7: when the function has settled after dispatching, every one of the
\* selected items has a task and that task has settled.
C7_SettlesAfterAllTasks ==
  (pc \in {"done", "rejected"} /\ tasks # <<>>) =>
    /\ Len(tasks) = Len(randomPokemon)
    /\ \A i \in 1..Len(tasks) : tasks[i].st = "settled"

\* the first task to settle failed while the function was still waiting for
\* the two others
C7_Witness ==
  /\ pc = "join"
  /\ Len(tasks) = 3
  /\ Len(completionOrder) = 1
  /\ tasks[completionOrder[1]].cause # "none"

\* C8: when any detail response has been handled (a task is past its fetch),
\* every selected item already has its request issued.
C8_AllIssuedBeforeAnyResponse ==
  (\E i \in 1..Len(tasks) : tasks[i].st # "awaitFetch") =>
    /\ Len(tasks) = count
    /\ Len(requests) = count + 1

\* one response is being handled while the two other requests are in flight
C8_Witness ==
  /\ Len(tasks) = 3
  /\ tasks[1].st = "awaitJson"
  /\ tasks[2].st = "awaitFetch"
  /\ tasks[3].st = "awaitFetch"

\* C9: a step that aborts the request of one item, or settles an aborted item,
\* leaves the task of every other item (state, timer, abort flag) unchanged.
C9_AbortIsPerItem ==
  [][\A i \in 1..Len(tasks) :
       ( \/ tasks'[i].aborted /\ ~tasks[i].aborted
         \/ tasks[i].aborted /\ tasks'[i] # tasks[i] )
       => \A j \in (1..Len(tasks)) \ {i} : tasks'[j] = tasks[j]]_vars

\* one item is aborted and not yet settled, a second is still in flight and not
\* aborted, a third has settled with its image after the abort
C9_Witness ==
  /\ Len(tasks) = 3
  /\ \E a, b, c \in 1..Len(tasks) :
       /\ tasks[a].aborted /\ tasks[a].st = "awaitFetch"
       /\ ~tasks[b].aborted /\ tasks[b].st = "awaitFetch"
       /\ tasks[c].st = "settled" /\ tasks[c].cause = "none"

\* C10 as stated: the returned items are in the order in which the tasks completed.
C10_ReturnedInCompletionOrder ==
  pc = "done" =>
    \A k \in 1..Len(returned) :
      returned[k].name = tasks[completionOrder[k]].pokemon.name

\* C10 amended: the returned items are in the order of selection (submission),
\* whatever the order in which the tasks completed.
C10_ReturnedInSubmissionOrder ==
  pc = "done" =>
    /\ Len(returned) = Len(randomPokemon)
    /\ \A k \in 1..Len(returned) :
         /\ returned[k].name = randomPokemon[k].name
         /\ returned[k].url = randomPokemon[k].url

\* a batch whose tasks completed in the reverse of the submission order
C10_Witness ==
  /\ pc = "done"
  /\ Len(returned) = 3
  /\ completionOrder = <<3, 2, 1>>

\* C12: no url is ever requested twice, and a resolved invocation has issued
\* exactly count + 1 requests: the listing, then one per selected item.
C12_ExactlyCountPlusOneRequests ==
  /\ \A a, b \in 1..Len(requests) : a # b => requests[a] # requests[b]
  /\ pc = "done" =>
       /\ Len(requests) = count + 1
       /\ requests[1] = ListUrl
       /\ \A k \in 1..Len(randomPokemon) :
            \E j \in 2..Len(requests) : requests[j] = randomPokemon[k].url

\* a resolved batch of three with a failed and a timed-out item and four requests
C12_Witness ==
  /\ pc = "done"
  /\ count = 3
  /\ Len(requests) = 4
  /\ \E a, b \in 1..Len(tasks) :
       tasks[a].cause = "NetworkError" /\ tasks[b].cause = "AbortError"

\* C13: every returned item has isLoading false, and an item whose retrieval
\* succeeded carries the front_default of the response to its own url.
C13_OwnImageNotLoading ==
  pc = "done" =>
    \A j \in 1..Len(returned) :
      /\ returned[j].isLoading = FALSE
      /\ tasks[TaskOf(returned[j])].body = "sprite"
           => returned[j].image = Sprite(returned[j].url)
      /\ tasks[TaskOf(returned[j])].body = "nullSprite"
           => returned[j].image = Null

\* three items succeeded and each carries the picture of its own url
C13_Witness ==
  /\ pc = "done"
  /\ Len(returned) = 3
  /\ \A j \in 1..3 :
       /\ tasks[TaskOf(returned[j])].body = "sprite"
       /\ returned[j].image = Sprite(returned[j].url)
  /\ returned[1].image # returned[2].image

\* C14: a listing request or listing body that fails rejects the function with
\* that error; no detail request is issued and nothing is returned.
C14_ListingFailureRejects ==
  /\ thrown \in {"NetworkError", "SyntaxError"} =>
       /\ pc = "rejected"
       /\ tasks = <<>>
       /\ requests = <<ListUrl>>
       /\ returned = <<>>
  /\ pc = "done" => thrown = "none"

\* the listing request failed and the function rejected with the network error
C14_Witness ==
  /\ pc = "rejected"
  /\ thrown = "NetworkError"
  /\ requests = <<ListUrl>>

\* C15 as stated: with count = 0 the function returns an empty sequence and has
\* issued no network call.
C15_EmptyCountNoNetworkCall ==
  (count = 0 /\ pc = "done") => (returned = <<>> /\ requests = <<>>)

\* C15 amended: with count = 0 the function returns an empty sequence and has
\* issued no detail request; the listing request is its only network call.
C15_EmptyCountOnlyListingCall ==
  (count = 0 /\ pc = "done") =>
    /\ returned = <<>>
    /\ tasks = <<>>
    /\ requests = <<ListUrl>>

\* count = 0 returned the empty sequence after a listing of three entries
C15_Witness ==
  /\ count = 0
  /\ pc = "done"
  /\ Len(results) = 3
  /\ returned = <<>>

\* ======================= App =======================
\* Model of the App component (src/src/components/PokemonList.tsx, lines
\* 270-443).  React state is the value last passed to its setter.  Every
\* invocation of fetchPokemonList is a record of listCalls; the continuation
\* that follows the listing body (selection, setPokemonList, setLoading, map)
\* is synchronous and is one step.

\* ---- bounds of the App model ----
AppCount == 2      \* the number of items the App selects; the code selects 10 (line 319)
MaxAppList == 2    \* longest listing the App receives
MaxCalls == 2      \* invocations of fetchPokemonList (mount and refreshes)

\* line 377: the message of the list error view
ListErrorMessage == <<"Failed to load Pokemon list">>

\* the fetcher of pokemonFetcher.ts is not running
FetcherParked ==
  /\ count = 0
  /\ pc = "idle"
  /\ results = <<>>
  /\ randomPokemon = <<>>
  /\ usedIndices = {}
  /\ tasks = <<>>
  /\ requests = <<>>
  /\ elapsed = FALSE
  /\ completionOrder = <<>>
  /\ consoleErrors = <<>>
  /\ returned = <<>>
  /\ thrown = "none"

\* lines 271-276: the component before its mount effect has run
ListInit == FetcherParked /\ AppUnmounted

\* lines 319-332 never end when the listing is shorter than the number wanted:
\* the thread stays in the loop and no other handler ever runs
Hung == \E c \in 1..Len(listCalls) : listCalls[c].pc = "spinning"

\* lines 340-346: a task of the App right after its synchronous part
NewAppTask(pokemon) ==
  [pokemon |-> pokemon, st |-> "awaitFetch", aborted |-> FALSE, value |-> pokemon]

\* lines 316-332: the selections the loop can end with: distinct indices, in draw order
Selections(len) ==
  {sel \in [1..AppCount -> 1..len] :
     \A a, b \in 1..AppCount : a # b => sel[a] # sel[b]}

\* lines 323-330: the placeholders of a selection
AppPlaceholders(sel) ==
  [k \in 1..AppCount |-> Placeholder([name |-> Name(sel[k]), url |-> Url(sel[k])])]

\* lines 306-312: fetchPokemonList up to its first await
StartFetchPokemonList ==
  /\ loading' = TRUE
  /\ error' = Null
  /\ listCalls' = Append(listCalls,
       [pc |-> "fetchList", randomPokemon |-> <<>>, tasks |-> <<>>, elapsed |-> FALSE])

\* lines 414-416: the mount effect
Mount ==
  /\ listCalls = <<>>
  /\ StartFetchPokemonList
  /\ UNCHANGED <<pokemonList, selectedPokemon, detailsLoading, detailsError,
                 listFrom, detailCalls>>
  /\ UNCHANGED fetcherVars

\* variant of HandleRefresh: the button of the loading view is not disabled
HandleRefreshWhileLoading ==
  /\ listCalls # <<>>
  /\ Len(listCalls) < MaxCalls
  /\ ~Hung
  /\ selectedPokemon' = Null
  /\ detailsError' = Null
  /\ StartFetchPokemonList
  /\ UNCHANGED <<pokemonList, detailsLoading, listFrom, detailCalls>>
  /\ UNCHANGED fetcherVars

\* lines 422-427 behind the Refresh/Retry button, which is disabled while loading (line 112)
HandleRefresh ==
  /\ listCalls # <<>>
  /\ Len(listCalls) < MaxCalls
  /\ ~Hung
  /\ ~loading
  /\ selectedPokemon' = Null
  /\ detailsError' = Null
  /\ StartFetchPokemonList
  /\ UNCHANGED <<pokemonList, detailsLoading, listFrom, detailCalls>>
  /\ UNCHANGED fetcherVars

\* variant of ListCatch: the catch block forgets setLoading(false)
ListCatchKeepsLoading(c) ==
  /\ error' = ListErrorMessage
  /\ listCalls' = [listCalls EXCEPT ![c].pc = "failed"]
  /\ UNCHANGED <<pokemonList, loading, selectedPokemon, detailsLoading, detailsError,
                 listFrom, detailCalls>>
  /\ UNCHANGED fetcherVars

\* lines 376-380: the catch block of invocation c
ListCatch(c) ==
  /\ error' = ListErrorMessage
  /\ loading' = FALSE
  /\ listCalls' = [listCalls EXCEPT ![c].pc = "failed"]
  /\ UNCHANGED <<pokemonList, selectedPokemon, detailsLoading, detailsError,
                 listFrom, detailCalls>>
  /\ UNCHANGED fetcherVars

\* line 312: the listing request of invocation c resolves
AppListFetchResolves(c) ==
  /\ ~Hung
  /\ c \in 1..Len(listCalls)
  /\ listCalls[c].pc = "fetchList"
  /\ listCalls' = [listCalls EXCEPT ![c].pc = "listJson"]
  /\ UNCHANGED <<pokemonList, loading, error, selectedPokemon, detailsLoading,
                 detailsError, listFrom, detailCalls>>
  /\ UNCHANGED fetcherVars

\* line 312: the listing request of invocation c rejects
AppListFetchRejects(c) ==
  /\ ~Hung
  /\ c \in 1..Len(listCalls)
  /\ listCalls[c].pc = "fetchList"
  /\ ListCatch(c)

\* line 313: the listing body of invocation c does not parse
AppListJsonRejects(c) ==
  /\ ~Hung
  /\ c \in 1..Len(listCalls)
  /\ listCalls[c].pc = "listJson"
  /\ ListCatch(c)

\* variant of ShowPlaceholdersAndDispatch: the requests are dispatched but the
\* list and the loading indicator wait for the join
DispatchWithoutPlaceholders(c, sel) ==
  /\ listCalls' = [listCalls EXCEPT
       ![c].pc = "join",
       ![c].randomPokemon = AppPlaceholders(sel),
       ![c].tasks = [k \in 1..AppCount |-> NewAppTask(AppPlaceholders(sel)[k])]]
  /\ UNCHANGED <<pokemonList, loading, listFrom, error, selectedPokemon,
                 detailsLoading, detailsError, detailCalls>>
  /\ UNCHANGED fetcherVars

\* lines 335-369 for a finished selection: show the placeholders, stop the
\* loading indicator, dispatch every detail request, suspend on the join
ShowPlaceholdersAndDispatch(c, sel) ==
  /\ pokemonList' = AppPlaceholders(sel)
  /\ loading' = FALSE
  /\ listFrom' = [call |-> c, phase |-> "placeholders"]
  /\ listCalls' = [listCalls EXCEPT
       ![c].pc = "join",
       ![c].randomPokemon = AppPlaceholders(sel),
       ![c].tasks = [k \in 1..AppCount |-> NewAppTask(AppPlaceholders(sel)[k])]]
  /\ UNCHANGED <<error, selectedPokemon, detailsLoading, detailsError, detailCalls>>
  /\ UNCHANGED fetcherVars

\* lines 313-369: the listing body of invocation c parses to len entries and the
\* continuation runs up to the join
AppListJsonResolves(c, len) ==
  /\ ~Hung
  /\ c \in 1..Len(listCalls)
  /\ listCalls[c].pc = "listJson"
  /\ IF len = 0
     THEN \* data.results[0] is undefined: pokemon.name throws into the catch block
          ListCatch(c)
     ELSE IF len < AppCount
     THEN \* the while loop cannot find AppCount distinct indices
          /\ listCalls' = [listCalls EXCEPT ![c].pc = "spinning"]
          /\ UNCHANGED <<pokemonList, loading, error, selectedPokemon, detailsLoading,
                         detailsError, listFrom, detailCalls>>
          /\ UNCHANGED fetcherVars
     ELSE \E sel \in Selections(len) : ShowPlaceholdersAndDispatch(c, sel)

\* variant of SetTask: a settled task writes its own item into the list at once
SetTaskIncremental(c, i, t) ==
  /\ listCalls' = [listCalls EXCEPT ![c].tasks[i] = t]
  /\ pokemonList' = IF t.st = "settled" /\ i \in 1..Len(pokemonList)
                    THEN [pokemonList EXCEPT ![i] = t.value]
                    ELSE pokemonList
  /\ UNCHANGED <<loading, error, selectedPokemon, detailsLoading,
                 detailsError, listFrom, detailCalls>>
  /\ UNCHANGED fetcherVars

\* the state of one task of one invocation changes; React state does not
SetTask(c, i, t) ==
  /\ listCalls' = [listCalls EXCEPT ![c].tasks[i] = t]
  /\ UNCHANGED <<pokemonList, loading, error, selectedPokemon, detailsLoading,
                 detailsError, listFrom, detailCalls>>
  /\ UNCHANGED fetcherVars

\* a handler of task i of invocation c may run
TaskReady(c, i) ==
  /\ ~Hung
  /\ c \in 1..Len(listCalls)
  /\ listCalls[c].pc = "join"
  /\ i \in 1..Len(listCalls[c].tasks)

\* line 344: requestTimeout has passed since invocation c set its timers; the
\* timers of an earlier invocation are due earlier
AppTimeoutElapses(c) ==
  /\ ~Hung
  /\ c \in 1..Len(listCalls)
  /\ listCalls[c].pc = "join"
  /\ ~listCalls[c].elapsed
  /\ \A b \in 1..(c - 1) : listCalls[b].pc = "join" => listCalls[b].elapsed
  /\ listCalls' = [listCalls EXCEPT ![c].elapsed = TRUE]
  /\ UNCHANGED <<pokemonList, loading, error, selectedPokemon, detailsLoading,
                 detailsError, listFrom, detailCalls>>
  /\ UNCHANGED fetcherVars

\* line 344: the timer of a request still in flight fires and aborts it
AppTimerFires(c, i) ==
  /\ TaskReady(c, i)
  /\ listCalls[c].elapsed
  /\ listCalls[c].tasks[i].st = "awaitFetch"
  /\ ~listCalls[c].tasks[i].aborted
  /\ SetTask(c, i, [listCalls[c].tasks[i] EXCEPT !.aborted = TRUE])

\* lines 346-347: the response arrives, the timer is cleared
AppDetailFetchResolves(c, i) ==
  /\ TaskReady(c, i)
  /\ listCalls[c].tasks[i].st = "awaitFetch"
  /\ ~listCalls[c].tasks[i].aborted
  /\ SetTask(c, i, [listCalls[c].tasks[i] EXCEPT !.st = "awaitJson"])

\* lines 356-364: the catch block of a task
AppCaught(t) == [t EXCEPT !.st = "settled", !.value = CatchValue(t.pokemon)]

\* line 346: the request fails with a network error
AppDetailFetchRejects(c, i) ==
  /\ TaskReady(c, i)
  /\ listCalls[c].tasks[i].st = "awaitFetch"
  /\ ~listCalls[c].tasks[i].aborted
  /\ SetTask(c, i, AppCaught(listCalls[c].tasks[i]))

\* line 346: the aborted request rejects
AppDetailFetchAborted(c, i) ==
  /\ TaskReady(c, i)
  /\ listCalls[c].tasks[i].st = "awaitFetch"
  /\ listCalls[c].tasks[i].aborted
  /\ SetTask(c, i, AppCaught(listCalls[c].tasks[i]))

\* lines 349-355: the body parses; a body without sprites throws at line 353
AppDetailJsonResolves(c, i, body) ==
  /\ TaskReady(c, i)
  /\ listCalls[c].tasks[i].st = "awaitJson"
  /\ body \in Bodies
  /\ SetTask(c, i,
       IF body = "noSprites"
       THEN AppCaught(listCalls[c].tasks[i])
       ELSE [listCalls[c].tasks[i] EXCEPT
               !.st = "settled",
               !.value = SuccessValue(listCalls[c].tasks[i].pokemon,
                           FrontDefault(body, listCalls[c].tasks[i].pokemon.url))])

\* line 349: the body does not parse
AppDetailJsonRejects(c, i) ==
  /\ TaskReady(c, i)
  /\ listCalls[c].tasks[i].st = "awaitJson"
  /\ SetTask(c, i, AppCaught(listCalls[c].tasks[i]))

\* line 369: every task of invocation c has settled
AppAllSettled(c) ==
  \A i \in 1..Len(listCalls[c].tasks) : listCalls[c].tasks[i].st = "settled"

\* lines 369-375: the join of invocation c resolves and the list is replaced
AppJoin(c) ==
  /\ ~Hung
  /\ c \in 1..Len(listCalls)
  /\ listCalls[c].pc = "join"
  /\ AppAllSettled(c)
  /\ pokemonList' = [k \in 1..Len(listCalls[c].tasks) |-> listCalls[c].tasks[k].value]
  /\ listFrom' = [call |-> c, phase |-> "resolved"]
  /\ listCalls' = [listCalls EXCEPT ![c].pc = "done"]
  /\ UNCHANGED <<loading, error, selectedPokemon, detailsLoading, detailsError,
                 detailCalls>>
  /\ UNCHANGED fetcherVars

Calls == 1..MaxCalls
AppItems == 1..AppCount

ListNext ==
  \/ Mount
  \/ HandleRefresh
  \/ \E c \in Calls : AppListFetchResolves(c)
  \/ \E c \in Calls : AppListFetchRejects(c)
  \/ \E c \in Calls, len \in 0..MaxAppList : AppListJsonResolves(c, len)
  \/ \E c \in Calls : AppListJsonRejects(c)
  \/ \E c \in Calls : AppTimeoutElapses(c)
  \/ \E c \in Calls, i \in AppItems : AppTimerFires(c, i)
  \/ \E c \in Calls, i \in AppItems : AppDetailFetchResolves(c, i)
  \/ \E c \in Calls, i \in AppItems : AppDetailFetchRejects(c, i)
  \/ \E c \in Calls, i \in AppItems : AppDetailFetchAborted(c, i)
  \/ \E c \in Calls, i \in AppItems, body \in Bodies : AppDetailJsonResolves(c, i, body)
  \/ \E c \in Calls, i \in AppItems : AppDetailJsonRejects(c, i)
  \/ \E c \in Calls : AppJoin(c)

ListSpec == ListInit /\ [][ListNext]_vars

\* What the runtime guarantees to the App: due timers fire, aborted requests
\* reject, a settled join resumes.  Neither the network nor the user owes a step.
ListFairness ==
  /\ WF_vars(Mount)
  /\ WF_vars(\E c \in Calls : AppTimeoutElapses(c))
  /\ WF_vars(\E c \in Calls, i \in AppItems : AppTimerFires(c, i))
  /\ WF_vars(\E c \in Calls, i \in AppItems : AppDetailFetchAborted(c, i))
  /\ WF_vars(\E c \in Calls : AppJoin(c))

ListFairSpec == ListSpec /\ ListFairness

\* ---- PokemonList (lines 104-159): what is rendered for the current props ----

\* line 151: the picture shown for an item without image
PlaceholderImage == <<"https://via.placeholder.com/96?text=?", 0>>

\* line 105: isSelected
IsSelected(poke) ==
  IF selectedPokemon = Null THEN FALSE ELSE poke.url = selectedPokemon.species.url

\* variant of Card: no skeleton branch, a loading item is a clickable card too
CardAlwaysClickable(poke) ==
  [kind |-> "card", key |-> poke.name, selected |-> IsSelected(poke),
   src |-> IF poke.image # Null THEN poke.image ELSE PlaceholderImage,
   onClick |-> poke.url]

\* lines 142-154: the element rendered for one item
Card(poke) ==
  IF poke.isLoading
  THEN [kind |-> "skeleton", key |-> poke.name, selected |-> FALSE,
        src |-> Null, onClick |-> Null]
  ELSE [kind |-> "card", key |-> poke.name, selected |-> IsSelected(poke),
        src |-> IF poke.image # Null THEN poke.image ELSE PlaceholderImage,
        onClick |-> poke.url]

\* variant of GridCards: items without image are filtered out of the grid
GridCardsWithImageOnly(list) ==
  LET kept == SelectSeq(list, LAMBDA poke : poke.isLoading \/ poke.image # Null)
  IN [k \in 1..Len(kept) |-> Card(kept[k])]

\* line 140: pokemon.map
GridCards(list) == [k \in 1..Len(list) |-> Card(list[k])]

\* lines 107-158: the view PokemonList returns
View ==
  IF loading
  THEN [kind |-> "loading", refreshDisabled |-> TRUE, text |-> Null, cards |-> <<>>]
  ELSE IF error # Null
  THEN [kind |-> "error", refreshDisabled |-> FALSE, text |-> error, cards |-> <<>>]
  ELSE [kind |-> "grid", refreshDisabled |-> FALSE, text |-> Null,
        cards |-> GridCards(pokemonList)]

\* ======================= properties of the App =======================

C16_LoadingAlwaysEnds ==
  loading ~> (~loading /\ \A k \in 1..Len(pokemonList) : ~pokemonList[k].isLoading)

\* C17: the step in which an invocation leaves the listing body and dispatches
\* its detail requests sets the list to AppCount placeholders and loading to
\* false, with every task still waiting for its response; and tasks exist only
\* in invocations that have made that step.
C17_PlaceholdersBeforeAnyResponse ==
  /\ [](\A c \in 1..Len(listCalls) :
          listCalls[c].tasks # <<>> => listCalls[c].pc \in {"join", "done"})
  /\ [][\A c \in 1..Len(listCalls) :
          (listCalls[c].pc = "listJson" /\ listCalls'[c].pc = "join") =>
            /\ Len(pokemonList') = AppCount
            /\ \A k \in 1..AppCount :
                 /\ pokemonList'[k].isLoading
                 /\ pokemonList'[k].image = Null
                 /\ pokemonList'[k].name = listCalls'[c].tasks[k].pokemon.name
            /\ ~loading'
            /\ \A k \in 1..AppCount : listCalls'[c].tasks[k].st = "awaitFetch"]_vars

\* the skeleton cards are displayed while every detail request is in flight
C17_Witness ==
  /\ listFrom.phase = "placeholders"
  /\ listCalls[listFrom.call].pc = "join"
  /\ \A k \in 1..AppCount : listCalls[listFrom.call].tasks[k].st = "awaitFetch"
  /\ View.kind = "grid"
  /\ Len(View.cards) = AppCount
  /\ \A k \in 1..AppCount : View.cards[k].kind = "skeleton"

\* C18 as stated: every resolved item of the list is rendered as a card, with
\* its image or, when the image is null, with the placeholder image.
C18_EveryResolvedItemRendered ==
  \A k \in 1..Len(pokemonList) :
    ~pokemonList[k].isLoading =>
      /\ View.kind = "grid"
      /\ View.cards[k].kind = "card"
      /\ View.cards[k].key = pokemonList[k].name
      /\ View.cards[k].src = IF pokemonList[k].image # Null
                             THEN pokemonList[k].image ELSE PlaceholderImage

\* C18 amended: when neither the loading view nor the error view is shown, the
\* grid has one element per item, and every resolved item is a card with its
\* image or, when the image is null, with the placeholder image.
C18_GridRendersEveryResolvedItem ==
  View.kind = "grid" =>
    /\ Len(View.cards) = Len(pokemonList)
    /\ \A k \in 1..Len(pokemonList) :
         ~pokemonList[k].isLoading =>
           /\ View.cards[k].kind = "card"
           /\ View.cards[k].key = pokemonList[k].name
           /\ View.cards[k].src = IF pokemonList[k].image # Null
                                  THEN pokemonList[k].image ELSE PlaceholderImage

\* the grid shows a card with its picture and a card with the placeholder picture
C18_Witness ==
  /\ View.kind = "grid"
  /\ \E a, b \in 1..Len(pokemonList) :
       /\ ~pokemonList[a].isLoading /\ pokemonList[a].image = Null
       /\ View.cards[a].kind = "card" /\ View.cards[a].src = PlaceholderImage
       /\ ~pokemonList[b].isLoading /\ pokemonList[b].image # Null
       /\ View.cards[b].src = pokemonList[b].image

\* C19: when a refresh started a second batch and every batch has ended with
\* its results, the list holds the results of the batch started last.
C19_LastStartedBatchWins ==
  ( /\ Len(listCalls) >= 2
    /\ \A c \in 1..Len(listCalls) : listCalls[c].pc = "done" )
  => listFrom = [call |-> Len(listCalls), phase |-> "resolved"]

\* ======================= App: the details of a selected item =======================
\* fetchPokemonDetails (lines 387-412).  Every invocation is a record of
\* detailCalls; nothing cancels an earlier invocation when a later one starts.

MaxSelects == 2    \* clicks on a card (fetchPokemonDetails through onSelect)
MaxRetries == 1    \* clicks on the details Retry (fetchPokemonDetails through onRetry)

\* Pokemon.species.url of the record served at the detail url of entry id
SpeciesUrl(id) == <<"species-url", id>>

\* the url is one of the listing's Pokemon urls
IsPokemonUrl(u) == u = Url(UrlId(u))

\* line 393: the record a detail url serves
PokemonAt(u) == [name |-> Name(UrlId(u)), species |-> [url |-> SpeciesUrl(UrlId(u))]]

\* flavor texts: sequences of characters, FF the form feed
FormFeed == "FF"
Texts == {<<>>, <<"a", FormFeed, "b">>, <<"c">>}
NoDescription == <<"No description available">>

\* the flavor_text_entries a species response can carry
FlavorEntries == [lang : {"en", "fr"}, flavor_text : Texts]
SpeciesBodies == {<<>>} \cup {<<e>> : e \in FlavorEntries}
                   \cup {<<e, f>> : e \in FlavorEntries, f \in {[lang |-> "en", flavor_text |-> <<"c">>]}}

\* line 399: the first entry whose language is "en", or Null
EnglishEntry(entries) ==
  IF \E k \in 1..Len(entries) : entries[k].lang = "en"
  THEN entries[CHOOSE k \in 1..Len(entries) :
                 /\ entries[k].lang = "en"
                 /\ \A j \in 1..(k - 1) : entries[j].lang # "en"]
  ELSE Null

\* line 400: the description chosen; an empty text is falsy
Description(entries) ==
  IF EnglishEntry(entries) # Null /\ EnglishEntry(entries).flavor_text # <<>>
  THEN EnglishEntry(entries).flavor_text
  ELSE IF entries # <<>> /\ entries[1].flavor_text # <<>>
  THEN entries[1].flavor_text
  ELSE NoDescription

\* line 404: description.replace(/\f/g, " ")
CleanUp(text) == [k \in 1..Len(text) |-> IF text[k] = FormFeed THEN " " ELSE text[k]]

\* line 407: the details error message
DetailsErrorMessage(u) == <<"Failed to load Pokemon details from", u>>

\* a state the App is in after its first batch has settled: both items resolved,
\* each with or without an image
DetailsInit ==
  /\ FetcherParked
  /\ \E images \in [1..AppCount -> BOOLEAN] :
       LET sel == [k \in 1..AppCount |-> k]
           values == [k \in 1..AppCount |->
                        IF images[k]
                        THEN SuccessValue(AppPlaceholders(sel)[k],
                                          Sprite(AppPlaceholders(sel)[k].url))
                        ELSE CatchValue(AppPlaceholders(sel)[k])]
       IN /\ pokemonList = values
          /\ listCalls = << [pc |-> "done", randomPokemon |-> AppPlaceholders(sel),
                             tasks |-> [k \in 1..AppCount |->
                                          [pokemon |-> AppPlaceholders(sel)[k],
                                           st |-> "settled", aborted |-> FALSE,
                                           value |-> values[k]]],
                             elapsed |-> FALSE] >>
  /\ listFrom = [call |-> 1, phase |-> "resolved"]
  /\ loading = FALSE
  /\ error = Null
  /\ selectedPokemon = Null
  /\ detailsLoading = FALSE
  /\ detailsError = Null
  /\ detailCalls = <<>>

\* the number of invocations of fetchPokemonDetails made through via
Invocations(via) ==
  Cardinality({d \in 1..Len(detailCalls) : detailCalls[d].via = via})

\* lines 387-392: fetchPokemonDetails(u) up to its first await; via records the
\* caller (onSelect or onRetry), since the number of fetchPokemonList
\* invocations made so far
StartFetchPokemonDetails(u, via) ==
  /\ detailsLoading' = TRUE
  /\ detailsError' = Null
  /\ detailCalls' = Append(detailCalls, [url |-> u, pc |-> "fetch", via |-> via, since |-> Len(listCalls)])

\* lines 418-420 behind the onClick of card k (line 147)
HandleSelectPokemon(k) ==
  /\ ~Hung
  /\ Invocations("onSelect") < MaxSelects
  /\ View.kind = "grid"
  /\ k \in 1..Len(View.cards)
  /\ View.cards[k].kind = "card"
  /\ StartFetchPokemonDetails(View.cards[k].onClick, "onSelect")
  /\ UNCHANGED <<pokemonList, loading, error, selectedPokemon, listCalls, listFrom>>
  /\ UNCHANGED fetcherVars

\* line 438: onRetry, which PokemonDetails (given error at line 437) invokes
\* from its error view; without a selected Pokemon the handler does nothing
DetailsRetry ==
  /\ ~Hung
  /\ Invocations("onRetry") < MaxRetries
  /\ detailsError # Null
  /\ selectedPokemon # Null
  /\ StartFetchPokemonDetails(selectedPokemon.species.url, "onRetry")
  /\ UNCHANGED <<pokemonList, loading, error, selectedPokemon, listCalls, listFrom>>
  /\ UNCHANGED fetcherVars

\* an await of invocation d resolves and the function moves on
DetailsAdvance(d, next) ==
  /\ detailCalls' = [detailCalls EXCEPT ![d].pc = next]
  /\ UNCHANGED <<pokemonList, loading, error, selectedPokemon, detailsLoading,
                 detailsError, listCalls, listFrom>>
  /\ UNCHANGED fetcherVars

\* lines 406-411: the catch block and the finally block of invocation d
DetailsCatch(d) ==
  /\ detailsError' = DetailsErrorMessage(detailCalls[d].url)
  /\ detailsLoading' = FALSE
  /\ detailCalls' = [detailCalls EXCEPT ![d].pc = "failed"]
  /\ UNCHANGED <<pokemonList, loading, error, selectedPokemon, listCalls, listFrom>>
  /\ UNCHANGED fetcherVars

\* invocation d is suspended at the await named at
DetailsAt(d, at) ==
  /\ ~Hung
  /\ d \in 1..Len(detailCalls)
  /\ detailCalls[d].pc = at

\* line 392: the detail request resolves
DetailsFetchResolves(d) == DetailsAt(d, "fetch") /\ DetailsAdvance(d, "json")

\* line 392: the detail request rejects
DetailsFetchRejects(d) == DetailsAt(d, "fetch") /\ DetailsCatch(d)

\* lines 393-395: the body parses; without species, data.species.url throws.
\* Only a Pokemon record has a species field: a species url serves SpeciesData.
DetailsJsonResolves(d, hasSpecies) ==
  /\ DetailsAt(d, "json")
  /\ hasSpecies => IsPokemonUrl(detailCalls[d].url)
  /\ IF hasSpecies THEN DetailsAdvance(d, "speciesFetch") ELSE DetailsCatch(d)

\* line 393: the body does not parse
DetailsJsonRejects(d) == DetailsAt(d, "json") /\ DetailsCatch(d)

\* line 395: the species request resolves
SpeciesFetchResolves(d) == DetailsAt(d, "speciesFetch") /\ DetailsAdvance(d, "speciesJson")

\* line 395: the species request rejects
SpeciesFetchRejects(d) == DetailsAt(d, "speciesFetch") /\ DetailsCatch(d)

\* lines 396-411: the species body parses; the details are stored
SpeciesJsonResolves(d, entries) ==
  /\ DetailsAt(d, "speciesJson")
  /\ entries \in SpeciesBodies
  /\ selectedPokemon' =
       [name |-> PokemonAt(detailCalls[d].url).name,
        species |-> PokemonAt(detailCalls[d].url).species,
        description |-> CleanUp(Description(entries))]
  /\ detailsLoading' = FALSE
  /\ detailCalls' = [detailCalls EXCEPT ![d].pc = "done"]
  /\ UNCHANGED <<pokemonList, loading, error, detailsError, listCalls, listFrom>>
  /\ UNCHANGED fetcherVars

\* lines 396-399: the species body does not parse or has no flavor_text_entries
SpeciesJsonRejects(d) == DetailsAt(d, "speciesJson") /\ DetailsCatch(d)

Selects == 1..(MaxSelects + MaxRetries)

DetailsNext ==
  \/ \E k \in AppItems : HandleSelectPokemon(k)
  \/ DetailsRetry
  \/ \E d \in Selects : DetailsFetchResolves(d)
  \/ \E d \in Selects : DetailsFetchRejects(d)
  \/ \E d \in Selects, hasSpecies \in BOOLEAN : DetailsJsonResolves(d, hasSpecies)
  \/ \E d \in Selects : DetailsJsonRejects(d)
  \/ \E d \in Selects : SpeciesFetchResolves(d)
  \/ \E d \in Selects : SpeciesFetchRejects(d)
  \/ \E d \in Selects, entries \in SpeciesBodies : SpeciesJsonResolves(d, entries)
  \/ \E d \in Selects : SpeciesJsonRejects(d)

DetailsSpec == DetailsInit /\ [][DetailsNext]_vars

\* ---- the App after its first batch: the details and the list together ----
AppNext ==
  \/ DetailsNext
  \/ HandleRefresh
  \/ \E c \in Calls : AppListFetchResolves(c)
  \/ \E c \in Calls : AppListFetchRejects(c)
  \/ \E c \in Calls, len \in 0..MaxAppList : AppListJsonResolves(c, len)
  \/ \E c \in Calls : AppListJsonRejects(c)
  \/ \E c \in Calls : AppTimeoutElapses(c)
  \/ \E c \in Calls, i \in AppItems : AppTimerFires(c, i)
  \/ \E c \in Calls, i \in AppItems : AppDetailFetchResolves(c, i)
  \/ \E c \in Calls, i \in AppItems : AppDetailFetchRejects(c, i)
  \/ \E c \in Calls, i \in AppItems : AppDetailFetchAborted(c, i)
  \/ \E c \in Calls, i \in AppItems, body \in Bodies : AppDetailJsonResolves(c, i, body)
  \/ \E c \in Calls, i \in AppItems : AppDetailJsonRejects(c, i)
  \/ \E c \in Calls : AppJoin(c)

AppSpec == DetailsInit /\ [][AppNext]_vars

\* C20: when every details load has ended successfully, selectedPokemon holds
\* the details of the Pokemon selected last.
C20_LastSelectedIsShown ==
  ( /\ detailCalls # <<>>
    /\ \A d \in 1..Len(detailCalls) : detailCalls[d].pc = "done" )
  => /\ selectedPokemon # Null
     /\ selectedPokemon.name = PokemonAt(detailCalls[Len(detailCalls)].url).name

\* C21: when a refresh has been made and no details load was started since the
\* latest one, selectedPokemon and detailsError are null.
C21_ClearedUntilNextSelection ==
  ( /\ Len(listCalls) >= 2
    /\ \A d \in 1..Len(detailCalls) : detailCalls[d].since < Len(listCalls) )
  => (selectedPokemon = Null /\ detailsError = Null)

\* C22: whenever the selection loop is entered, it is eventually left with
\* exactly count placeholders, taken from pairwise distinct positions of the
\* listing.
C22_SelectionTerminates ==
  (pc = "select") ~>
    ( /\ pc = "map"
      /\ Len(randomPokemon) = count
      /\ Cardinality(usedIndices) = count
      /\ \A k \in 1..count :
           \E randomIndex \in usedIndices :
             randomPokemon[k] = Placeholder(results[randomIndex + 1]) )

\* C23: the step in which the listing phase of an invocation fails sets error
\* to the list error message and loading to false and leaves pokemonList as it
\* was; a failed invocation has issued no detail request; and the step that
\* starts an invocation sets error to null and issues the listing request.
C23_ListingFailureShowsError ==
  /\ [](\A c \in 1..Len(listCalls) :
          listCalls[c].pc = "failed" => listCalls[c].tasks = <<>>)
  /\ [][\A c \in 1..Len(listCalls) :
          (listCalls[c].pc # "failed" /\ listCalls'[c].pc = "failed") =>
            ( /\ listCalls[c].pc \in {"fetchList", "listJson"}
              /\ error' = ListErrorMessage
              /\ ~loading'
              /\ pokemonList' = pokemonList )]_vars
  /\ [][(Len(listCalls') > Len(listCalls)) =>
          ( /\ error' = Null
            /\ listCalls'[Len(listCalls')].pc = "fetchList" )]_vars

\* the first invocation failed and Retry has started the next one
C23_Witness ==
  /\ Len(listCalls) = 2
  /\ listCalls[1].pc = "failed"
  /\ listCalls[2].pc = "fetchList"
  /\ error = Null
  /\ loading
  /\ pokemonList = <<>>

\* C24: detailsLoading is true exactly when some invocation of
\* fetchPokemonDetails has not ended yet.
C24_DetailsLoadingIffInFlight ==
  detailsLoading <=>
    \E d \in 1..Len(detailCalls) : detailCalls[d].pc \notin {"done", "failed"}

\* C25: the step in which an invocation of fetchPokemonDetails(url) fails sets
\* detailsError to the message naming url, leaves selectedPokemon as it was and
\* sets detailsLoading to false; the step in which it succeeds makes
\* selectedPokemon the details loaded from url, with detailsError null and
\* detailsLoading false.
C25_DetailsOutcome ==
  [][\A d \in 1..Len(detailCalls) :
       /\ (detailCalls[d].pc # "failed" /\ detailCalls'[d].pc = "failed") =>
            ( /\ detailsError' = DetailsErrorMessage(detailCalls[d].url)
              /\ selectedPokemon' = selectedPokemon
              /\ ~detailsLoading' )
       /\ (detailCalls[d].pc # "done" /\ detailCalls'[d].pc = "done") =>
            ( /\ selectedPokemon' # Null
              /\ selectedPokemon'.name = PokemonAt(detailCalls[d].url).name
              /\ selectedPokemon'.species = PokemonAt(detailCalls[d].url).species
              /\ detailsError' = Null
              /\ ~detailsLoading' )]_vars

\* C26: every details request made through Retry asks for the url of an
\* earlier invocation that failed.
C26_RetryRequestsFailedUrl ==
  \A d \in 1..Len(detailCalls) :
    detailCalls[d].via = "onRetry" =>
      \E e \in 1..(d - 1) :
        /\ detailCalls[e].pc = "failed"
        /\ detailCalls[e].url = detailCalls[d].url

\* C27: when the details of a Pokemon have been loaded, the card of that
\* Pokemon is rendered as selected and no other card is.
C27_LoadedCardIsHighlighted ==
  (selectedPokemon # Null /\ View.kind = "grid") =>
    \A k \in 1..Len(View.cards) :
      View.cards[k].kind = "card" =>
        (View.cards[k].selected <=> View.cards[k].key = selectedPokemon.name)

\* C28: at most one invocation of fetchPokemonList is in its listing phase
\* (request, body or selection), and while one is, loading is true and the
\* Refresh button is rendered disabled.
C28_OneListingInFlight ==
  LET listing == {c \in 1..Len(listCalls) :
                    listCalls[c].pc \in {"fetchList", "listJson", "spinning"}}
  IN /\ Cardinality(listing) <= 1
     /\ listing # {} => (loading /\ View.kind = "loading" /\ View.refreshDisabled)

\* a refresh made during the detail phase of the first invocation: its listing
\* request is the only one in flight
C28_Witness ==
  /\ Len(listCalls) = 2
  /\ listCalls[1].pc = "join"
  /\ listCalls[2].pc = "fetchList"
  /\ View.refreshDisabled

\* C29: every step that invokes onSelect(url) is taken while neither the
\* loading view nor the error view is shown, and url is the url of an item of
\* the list whose isLoading is false.
C29_OnlyResolvedItemsSelectable ==
  [][(/\ Len(detailCalls') > Len(detailCalls)
      /\ detailCalls'[Len(detailCalls')].via = "onSelect") =>
        ( /\ ~loading
          /\ error = Null
          /\ \E k \in 1..Len(pokemonList) :
               /\ pokemonList[k].url = detailCalls'[Len(detailCalls')].url
               /\ ~pokemonList[k].isLoading )]_vars

\* a card was clicked after a refresh, once the refreshed list had left its
\* skeleton cards behind
C29_Witness ==
  /\ Len(listCalls) = 2
  /\ listFrom = [call |-> 2, phase |-> "resolved"]
  /\ \E d \in 1..Len(detailCalls) :
       /\ detailCalls[d].via = "onSelect"
       /\ detailCalls[d].since = 2
       /\ detailCalls[d].pc = "fetch"
       /\ \E k \in 1..Len(pokemonList) :
            pokemonList[k].url = detailCalls[d].url /\ ~pokemonList[k].isLoading

====
